---- MODULE Spec2Model ----
(***************************************************************************)
(* Model of the Zillow scraper: the pagination loop of NimbleScraper       *)
(* (scraper.py) and the JSON extraction of ZillowParser (parser.py).       *)
(*                                                                         *)
(* Spec        the fetch loop: fetch_all_pages driving fetch_page and      *)
(*             fetch_page_with_url_state against the rendering API.        *)
(* ParserSpec  the parser: extract_json_data, extract_search_results,      *)
(*             __try_alternative_paths, parse_property and                  *)
(*             parse_all_properties applied to bounded page contents.      *)
(***************************************************************************)
EXTENDS Integers, Sequences, FiniteSets, TLC

(***************************************************************************)
(* Bounds                                                                  *)
(***************************************************************************)
\* largest max_pages argument tried
MaxMaxPages == 3
\* largest pagination.currentPage already present in a base_url
MaxBasePage == 1
\* longest listing array tried
MaxListLen == 3

VARIABLES
    \* ---- scraper.py ----
    base_url,     \* argument of fetch_all_pages
    max_pages,    \* argument of fetch_all_pages
    site,         \* what the site serves: page number -> state of its rel="next" link
    pc,           \* position in fetch_all_pages
    page_num,     \* loop variable of fetch_all_pages
    all_pages,    \* local list of fetch_all_pages
    result,       \* local: what the last fetch returned
    returned,     \* the value fetch_all_pages returned
    attempted,    \* history: page numbers whose loop iteration was entered
    sent,         \* history: HTTP calls made, in order
    \* ---- parser.py ----
    ppc,          \* position of the parser run
    html_content, \* argument of ZillowParser.parse_listings
    json_arg,     \* argument of extract_search_results
    search_out,   \* what extract_search_results returned
    properties    \* what parse_all_properties returned (or that it raised)

scraperVars == <<base_url, max_pages, site, pc, page_num, all_pages, result,
                 returned, attempted, sent>>
parserVars == <<ppc, html_content, json_arg, search_out, properties>>
vars == <<base_url, max_pages, site, pc, page_num, all_pages, result,
          returned, attempted, sent, ppc, html_content, json_arg, search_out,
          properties>>

(***************************************************************************)
(* scraper.py: URLs                                                        *)
(*                                                                         *)
(* A URL is kept by the parts the code reads and writes:                   *)
(*   qs        the searchQueryState query parameter:                       *)
(*             "none"     absent, or blank (parse_qs drops blank values)   *)
(*             "dict"     decodes to a JSON object                         *)
(*             "badjson"  does not decode (json.loads raises)              *)
(*             "nondict"  decodes to a JSON value that is not an object    *)
(*   curPage   pagination.currentPage inside a "dict" state, 0 when the    *)
(*             state has no pagination key                                 *)
(*   pathPage  n of a trailing "n_p" path segment, 0 when there is none    *)
(***************************************************************************)
Url(qs, curPage, pathPage) == [qs |-> qs, curPage |-> curPage, pathPage |-> pathPage]

BaseUrls ==
    {Url("none", 0, pp) : pp \in {0, 2}}
    \cup {Url("dict", cp, pp) : cp \in 0..MaxBasePage, pp \in {0, 2}}
    \cup {Url("badjson", 0, 0), Url("nondict", 0, 0)}

\* pagination.currentPage carried by the searchQueryState of a URL (0: none)
CurrentPageOf(url) == IF url.qs = "dict" THEN url.curPage ELSE 0

\* The page the site serves for a URL: the one its searchQueryState asks
\* for, the first page when it asks for none (the path is cosmetic).
ServedPage(url) == IF CurrentPageOf(url) > 0 THEN CurrentPageOf(url) ELSE 1

\* the page numbers the site can be asked for
SitePages == 1..(MaxMaxPages + MaxBasePage)

(***************************************************************************)
(* scraper.py: values                                                      *)
(***************************************************************************)
None == [k |-> "None"]
Raised == [k |-> "raise"]

NextStates == {"enabled", "disabled", "absent"}
NoHtml == [page |-> 0, next |-> "none"]
Html(p, nx) == [page |-> p, next |-> nx]

HtmlKeys == {"html_content", "rendered_html", "browser_html", "html"}

\* a decoded response dict; a key that is absent (or holds "") is NoHtml
ResponseDict(nonempty, hc, rh, bh, h) ==
    [k |-> "dict", nonempty |-> nonempty, html_content |-> hc,
     rendered_html |-> rh, browser_html |-> bh, html |-> h]

EmptyDict == ResponseDict(FALSE, NoHtml, NoHtml, NoHtml, NoHtml)

\* a non-empty response dict holding page content under one key, or under none
DictWith(key, content) ==
    ResponseDict(TRUE,
                 IF key = "html_content" THEN content ELSE NoHtml,
                 IF key = "rendered_html" THEN content ELSE NoHtml,
                 IF key = "browser_html" THEN content ELSE NoHtml,
                 IF key = "html" THEN content ELSE NoHtml)

\* Python truth value of a fetch result
Truthy(r) == r.k = "dict" /\ r.nonempty

(***************************************************************************)
(* scraper.py: the rendering API                                           *)
(*                                                                         *)
(* What one requests.post can end in:                                      *)
(*   "http_error"     an error status; raise_for_status raises HTTPError   *)
(*   "timeout", "connection_error", "request_exception"                    *)
(*                    requests.post raises that RequestException           *)
(*   "invalid_json"   success status, body is not JSON; response.json()    *)
(*                    raises a RequestException (requests >= 2.27) or a    *)
(*                    plain ValueError (older), which the body says        *)
(*   "not_a_dict"     success status, JSON that is not an object (or whose *)
(*                    render_flow is not one): data.get raises             *)
(*   "ok"             success status, a JSON object                        *)
(***************************************************************************)
NetworkFailures == {"http_error", "timeout", "connection_error", "request_exception"}

Outcome(kind, caught, body) == [kind |-> kind, caught |-> caught, body |-> body]

\* the response bodies the API can deliver for the page the URL addresses
BodiesFor(url) ==
    {EmptyDict}
    \cup {DictWith(key, Html(ServedPage(url), site[ServedPage(url)])) :
             key \in HtmlKeys \cup {"nokey"}}

OutcomesFor(url) ==
    {Outcome(kind, TRUE, EmptyDict) : kind \in NetworkFailures \cup {"not_a_dict"}}
    \cup {Outcome("invalid_json", c, EmptyDict) : c \in BOOLEAN}
    \cup {Outcome("ok", TRUE, b) : b \in BodiesFor(url)}

\* fetch_page without the except clause for timeouts
fetch_page_TimeoutEscapes(o) ==
    CASE o.kind = "timeout" -> Raised
      [] o.kind \in NetworkFailures -> None
      [] o.kind = "invalid_json" -> IF o.caught THEN None ELSE Raised
      [] o.kind = "not_a_dict" -> Raised
      [] OTHER -> o.body

fetch_page(o) ==
    CASE o.kind \in NetworkFailures -> None
      [] o.kind = "invalid_json" -> IF o.caught THEN None ELSE Raised
      [] o.kind = "not_a_dict" -> Raised
      [] OTHER -> o.body

(***************************************************************************)
(* scraper.py: fetch_page_with_url_state                                   *)
(* The request it makes: the URL it sends, or that it raised before any.   *)
(***************************************************************************)
Request(raises, url) == [raises |-> raises, url |-> url]

fetch_page_with_url_state(url, page_number) ==
    IF url.qs # "none"
    THEN IF url.qs # "dict"
         THEN Request(TRUE, url)
         ELSE Request(FALSE,
                      Url("dict", page_number,
                          IF page_number > 1 THEN page_number ELSE 0))
    ELSE Request(FALSE, url)

\* the request of one loop iteration
RequestOf(url, n) ==
    IF n = 1 THEN Request(FALSE, url) ELSE fetch_page_with_url_state(url, n)

(***************************************************************************)
(* scraper.py: fetch_all_pages                                             *)
(***************************************************************************)
\* range(1, max_pages + 2)
PageRange_OneTooMany(mp) == 1..(mp + 1)

\* range(1, max_pages + 1)
PageRange(mp) == 1..mp

ExtractHtml(r) ==
    IF r.html_content # NoHtml THEN r.html_content
    ELSE IF r.rendered_html # NoHtml THEN r.rendered_html
    ELSE IF r.browser_html # NoHtml THEN r.browser_html
    ELSE r.html

\* not next_link or next_link.get('aria-disabled') == 'true'
NoNextPage(html) == html.next = "absent" \/ html.next = "disabled"

PageEntry(n, url, r) == [page_number |-> n, url |-> url, data |-> r]

\* the loop body with the append placed before the check of the result
LoopBody_RecordsFailedPage(pages, n, url, r) ==
    IF ~Truthy(r)
    THEN [all_pages |-> Append(pages, PageEntry(n, url, r)), stop |-> TRUE]
    ELSE [all_pages |-> Append(pages, PageEntry(n, url, r)),
          stop |-> ExtractHtml(r) = NoHtml \/ NoNextPage(ExtractHtml(r))]

\* One pass of the loop body once the fetch has returned r: the new list
\* and whether the loop breaks.
LoopBody(pages, n, url, r) ==
    IF ~Truthy(r)
    THEN [all_pages |-> pages, stop |-> TRUE]
    ELSE [all_pages |-> Append(pages, PageEntry(n, url, r)),
          stop |-> ExtractHtml(r) = NoHtml \/ NoNextPage(ExtractHtml(r))]

\* history record of one HTTP call: the page it was for, the URL sent, how
\* the call ended and what fetch_page gave its caller
Sent(n, url, kind, r) == [page |-> n, url |-> url, outcome |-> kind, result |-> r]

Init ==
    /\ base_url \in BaseUrls
    /\ max_pages \in 0..MaxMaxPages
    /\ site \in [SitePages -> NextStates]
    /\ pc = "idle"
    /\ page_num = 0
    /\ all_pages = <<>>
    /\ result = None
    /\ returned = <<>>
    /\ attempted = <<>>
    /\ sent = <<>>
    /\ ppc = "off"
    /\ html_content = 0
    /\ json_arg = 0
    /\ search_out = 0
    /\ properties = 0

\* fetch_all_pages is entered: all_pages = [] and the loop starts
Call ==
    /\ pc = "idle"
    /\ pc' = "loop"
    /\ page_num' = 1
    /\ all_pages' = <<>>
    /\ UNCHANGED <<base_url, max_pages, site, result, returned, attempted, sent>>
    /\ UNCHANGED parserVars

\* an iteration whose fetch returned (a dict or None)
IterateFetched ==
    /\ pc = "loop"
    /\ page_num \in PageRange(max_pages)
    /\ ~RequestOf(base_url, page_num).raises
    /\ \E o \in OutcomesFor(RequestOf(base_url, page_num).url) :
         LET req == RequestOf(base_url, page_num)
             r == fetch_page(o)
             body == LoopBody(all_pages, page_num, base_url, r)
         IN /\ r # Raised
            /\ attempted' = Append(attempted, page_num)
            /\ sent' = Append(sent, Sent(page_num, req.url, o.kind, r))
            /\ result' = r
            /\ all_pages' = body.all_pages
            /\ IF body.stop
               THEN pc' = "exit" /\ page_num' = page_num
               ELSE pc' = "loop" /\ page_num' = page_num + 1
    /\ UNCHANGED <<base_url, max_pages, site, returned>>
    /\ UNCHANGED parserVars

\* an iteration in which fetch_page_with_url_state raised before any call
IterateUrlRaised ==
    /\ pc = "loop"
    /\ page_num \in PageRange(max_pages)
    /\ RequestOf(base_url, page_num).raises
    /\ attempted' = Append(attempted, page_num)
    /\ pc' = "raised"
    /\ UNCHANGED <<base_url, max_pages, site, page_num, all_pages, result, returned, sent>>
    /\ UNCHANGED parserVars

\* an iteration in which fetch_page raised after its call
IterateFetchRaised ==
    /\ pc = "loop"
    /\ page_num \in PageRange(max_pages)
    /\ ~RequestOf(base_url, page_num).raises
    /\ \E o \in OutcomesFor(RequestOf(base_url, page_num).url) :
         /\ fetch_page(o) = Raised
         /\ sent' = Append(sent, Sent(page_num, RequestOf(base_url, page_num).url,
                                       o.kind, Raised))
    /\ attempted' = Append(attempted, page_num)
    /\ pc' = "raised"
    /\ UNCHANGED <<base_url, max_pages, site, page_num, all_pages, result, returned>>
    /\ UNCHANGED parserVars

\* the range is exhausted
LoopExhausted ==
    /\ pc = "loop"
    /\ page_num \notin PageRange(max_pages)
    /\ pc' = "exit"
    /\ UNCHANGED <<base_url, max_pages, site, page_num, all_pages, result, returned, attempted, sent>>
    /\ UNCHANGED parserVars

\* return all_pages
Return ==
    /\ pc = "exit"
    /\ returned' = all_pages
    /\ pc' = "done"
    /\ UNCHANGED <<base_url, max_pages, site, page_num, all_pages, result, attempted, sent>>
    /\ UNCHANGED parserVars

Next ==
    \/ Call
    \/ IterateFetched
    \/ IterateUrlRaised
    \/ IterateFetchRaised
    \/ LoopExhausted
    \/ Return

Spec == Init /\ [][Next]_vars

(***************************************************************************)
(* parser.py: JSON values as Python holds them after json.loads            *)
(*                                                                         *)
(* A dict is the sequence of its key/value pairs, each key held once.      *)
(* Absent is what a lookup of a key that is not held gives, and Exc stands *)
(* for a raised exception.                                                 *)
(***************************************************************************)
Absent == [t |-> "absent"]
Exc == [t |-> "raise"]
JNull == [t |-> "null"]
JBool(b) == [t |-> "bool", b |-> b]
JNum(n) == [t |-> "num", n |-> n]
JStr(str) == [t |-> "str", s |-> str]
JList(items) == [t |-> "list", items |-> items]
JDict(pairs) == [t |-> "dict", pairs |-> pairs]

\* a key/value pair; a pair whose value is Absent stands for no pair
KV(key, value) == [k |-> key, v |-> value]
D(pairs) == JDict(SelectSeq(pairs, LAMBDA kv : kv.v # Absent))
JEmpty == JDict(<<>>)

\* the value a dict holds under a key, Absent when it holds none
Lookup(d, key) ==
    IF \E i \in DOMAIN d.pairs : d.pairs[i].k = key
    THEN d.pairs[CHOOSE i \in DOMAIN d.pairs : d.pairs[i].k = key].v
    ELSE Absent

\* Python truth value
JTruthy(v) ==
    CASE v.t = "bool" -> v.b
      [] v.t = "num" -> v.n # 0
      [] v.t = "str" -> v.s # ""
      [] v.t = "list" -> v.items # <<>>
      [] v.t = "dict" -> v.pairs # <<>>
      [] OTHER -> FALSE

\* d.get(key, default); only a dict has .get
Get(d, key, default) ==
    IF d.t # "dict" THEN Exc
    ELSE IF Lookup(d, key) = Absent THEN default ELSE Lookup(d, key)

\* key in d
HasKey(d, key) == d.t = "dict" /\ Lookup(d, key) # Absent

(***************************************************************************)
(* parser.py: extract_json_data                                            *)
(*                                                                         *)
(* The page passed to the parser, by what extract_json_data meets:         *)
(*   "empty"         html_content is empty: self.soup is None              *)
(*   "no_script"     no __NEXT_DATA__ script tag                           *)
(*   "empty_script"  the tag has no string (json.loads(None))              *)
(*   "invalid_json"  the tag's content does not decode                     *)
(*   "json"          the tag's content decodes to the value json           *)
(***************************************************************************)
Page(kind, json) == [kind |-> kind, json |-> json]

extract_json_data(html) ==
    CASE html.kind = "empty" -> JNull
      [] html.kind = "no_script" -> JNull
      [] html.kind = "empty_script" -> JNull
      [] html.kind = "invalid_json" -> JNull
      [] OTHER -> html.json

(***************************************************************************)
(* parser.py: __try_alternative_paths and extract_search_results            *)
(***************************************************************************)
PrimaryPath == <<"props", "pageProps", "searchPageState", "cat1", "searchResults">>

alternative_paths ==
    << <<"props", "pageProps", "searchPageState", "searchResults">>,
       <<"props", "pageProps", "componentProps", "searchResults">>,
       <<"props", "initialReduxState", "searchPageState", "cat1", "searchResults">> >>

\* for key in path: data = data.get(key, {})
RECURSIVE Walk(_, _)
Walk(data, path) ==
    IF path = <<>> THEN data
    ELSE IF data = Exc THEN Exc
    ELSE Walk(Get(data, Head(path), JEmpty), Tail(path))

RECURSIVE TryPathsFrom(_, _)
TryPathsFrom(json_data, i) ==
    IF i > Len(alternative_paths) THEN JNull
    ELSE LET data == Walk(json_data, alternative_paths[i])
         IN IF data # Exc /\ JTruthy(data) /\ data.t = "dict" /\ HasKey(data, "listResults")
            THEN data
            ELSE TryPathsFrom(json_data, i + 1)

_try_alternative_paths(json_data) == TryPathsFrom(json_data, 1)

extract_search_results(json_data) ==
    LET search_results == Walk(json_data, PrimaryPath)
    IN IF search_results = Exc THEN JNull
       ELSE IF ~JTruthy(search_results) THEN _try_alternative_paths(json_data)
       ELSE search_results

(***************************************************************************)
(* parser.py: parse_property                                               *)
(***************************************************************************)
\* detail_url after the prefixing step; Exc when .startswith is not there
AbsoluteUrls == {"https://www.zillow.com/homedetails/2"}
DetailUrl(v) ==
    IF ~JTruthy(v) THEN v
    ELSE IF v.t # "str" THEN Exc
    ELSE IF v.s \in AbsoluteUrls THEN v
    ELSE [t |-> "fstr", parts |-> <<JStr("https://www.zillow.com"), v>>]

\* the body of the try block, for a dict with a non-empty zpid
PropertyInfo(p) ==
    LET home_info == Get(Get(p, "hdpData", JEmpty), "homeInfo", JEmpty)
        property_type == IF home_info = Exc THEN Exc ELSE Get(home_info, "homeType", JStr(""))
        year_built == IF home_info = Exc THEN Exc ELSE Get(home_info, "yearBuilt", JNull)
        detail_url == DetailUrl(Get(p, "detailUrl", JStr("")))
        days_on_zillow == Get(Get(p, "variableData", JEmpty), "text", JStr(""))
        lat_long == Get(p, "latLong", JEmpty)
        latitude == Get(lat_long, "latitude", JNull)
        longitude == Get(lat_long, "longitude", JNull)
    IN IF Exc \in {property_type, year_built, detail_url, days_on_zillow, latitude, longitude}
       THEN Exc
       ELSE [t |-> "info",
             zpid |-> Get(p, "zpid", JNull),
             address |-> Get(p, "addressStreet", JStr("")),
             city |-> Get(p, "addressCity", JStr("")),
             state |-> Get(p, "addressState", JStr("")),
             zipcode |-> Get(p, "addressZipcode", JStr("")),
             full_address |-> [t |-> "fstr",
                               parts |-> <<Get(p, "addressStreet", JStr("")),
                                           Get(p, "addressCity", JStr("")),
                                           Get(p, "addressState", JStr("")),
                                           Get(p, "addressZipcode", JStr(""))>>],
             price |-> Get(p, "price", JNull),
             price_numeric |-> Get(p, "unformattedPrice", JNum(0)),
             bedrooms |-> Get(p, "beds", JNull),
             bathrooms |-> Get(p, "baths", JNull),
             area_sqft |-> Get(p, "area", JNull),
             property_type |-> property_type,
             listing_type |-> Get(p, "statusType", JStr("")),
             listing_status |-> Get(p, "statusText", JStr("")),
             detail_url |-> detail_url,
             image_url |-> Get(p, "imgSrc", JStr("")),
             lot_area |-> Get(p, "lotAreaValue", JNull),
             lot_area_unit |-> Get(p, "lotAreaUnit", JStr("")),
             year_built |-> year_built,
             days_on_zillow |-> days_on_zillow,
             latitude |-> latitude,
             longitude |-> longitude,
             broker_name |-> Get(p, "brokerName", JStr("")),
             has_image |-> Get(p, "hasImage", JBool(FALSE)),
             is_featured |-> Get(p, "isFeatured", JBool(FALSE))]

\* None for an entry without zpid or whose parsing raised; Exc when the
\* entry is no dict, as the except clause itself calls prop_data.get
parse_property(prop_data) ==
    IF prop_data.t # "dict" THEN Exc
    ELSE IF ~JTruthy(Get(prop_data, "zpid", JNull)) THEN JNull
    ELSE IF PropertyInfo(prop_data) = Exc THEN JNull
    ELSE PropertyInfo(prop_data)

(***************************************************************************)
(* parser.py: parse_all_properties                                         *)
(***************************************************************************)
\* what len() and enumerate() make of list_results: the items walked, or
\* Exc when the value has no len().  A dict yields its keys and a string
\* its characters, of which the first already ends the loop.
Items(v) ==
    CASE v.t = "list" -> v
      [] v.t = "str" -> IF v.s = "" THEN JList(<<>>) ELSE JList(<<JStr("c")>>)
      [] v.t = "dict" -> JList([i \in DOMAIN v.pairs |-> JStr(v.pairs[i].k)])
      [] OTHER -> Exc

\* the loop over list_results: the records kept, or Exc when one raised
RECURSIVE ParseEach(_, _)
ParseEach(items, acc) ==
    IF items = <<>> THEN JList(acc)
    ELSE LET prop_info == parse_property(Head(items))
         IN IF prop_info = Exc THEN Exc
            ELSE IF prop_info = JNull THEN ParseEach(Tail(items), acc)
            ELSE ParseEach(Tail(items), Append(acc, prop_info))

\* list_results once the alternative key names were tried
ListResults(search_results) ==
    LET first == Get(search_results, "listResults", JList(<<>>))
        second == Get(search_results, "results", JList(<<>>))
    IN IF first = Exc THEN Exc
       ELSE IF JTruthy(first) THEN first
       ELSE IF JTruthy(second) THEN second
       ELSE Get(search_results, "mapResults", JList(<<>>))

parse_all_properties(html) ==
    LET json_data == extract_json_data(html)
        search_results == extract_search_results(json_data)
    IN IF ~JTruthy(json_data) THEN JList(<<>>)
       ELSE IF ~JTruthy(search_results) THEN JList(<<>>)
       ELSE IF ListResults(search_results) = Exc THEN Exc
       ELSE IF Items(ListResults(search_results)) = Exc THEN Exc
       ELSE ParseEach(Items(ListResults(search_results)).items, <<>>)

(***************************************************************************)
(* Parser inputs                                                           *)
(***************************************************************************)
\* a listing with the fields a search result page usually carries
FullListing(z) ==
    D(<<KV("zpid", JStr(z)),
        KV("price", JStr("$2,000/mo")),
        KV("unformattedPrice", JNum(2000)),
        KV("addressStreet", JStr("1 Main St")),
        KV("addressCity", JStr("Denver")),
        KV("addressState", JStr("CO")),
        KV("addressZipcode", JStr("80202")),
        KV("beds", JNum(5)),
        KV("baths", JNum(2)),
        KV("hdpData", D(<<KV("homeInfo", D(<<KV("homeType", JStr("SINGLE_FAMILY")),
                                             KV("yearBuilt", JNum(1990))>>))>>)),
        KV("detailUrl", JStr("https://www.zillow.com/homedetails/2")),
        KV("variableData", D(<<KV("text", JStr("3 days on Zillow"))>>)),
        KV("latLong", D(<<KV("latitude", JNum(39)), KV("longitude", JNum(104))>>))>>)

ListingEntries ==
    {D(<<KV("zpid", JStr("z1")), KV("detailUrl", JStr("/homedetails/1"))>>),
     FullListing("z2"),
     D(<<KV("zpid", JStr("z3")), KV("latLong", JNull)>>),
     D(<<KV("zpid", JStr("")), KV("addressStreet", JStr("2 Main St"))>>),
     D(<<KV("addressStreet", JStr("3 Main St"))>>)}

RECURSIVE SeqsUpTo(_, _)
SeqsUpTo(S, n) ==
    IF n = 0 THEN {<<>>}
    ELSE SeqsUpTo(S, n - 1)
         \cup {Append(q, e) : q \in {r \in SeqsUpTo(S, n - 1) : Len(r) = n - 1}, e \in S}

ListingArrays == SeqsUpTo(ListingEntries, MaxListLen)

\* values met where search results are looked for
Marked(z) == D(<<KV("listResults", JList(<<D(<<KV("zpid", JStr(z))>>)>>))>>)

PrimaryValues ==
    {Absent, JNull, JEmpty, JList(<<JNum(1)>>), Marked("z1"),
     D(<<KV("other", JNum(1))>>),
     D(<<KV("listResults", JList(<<>>)), KV("mapResults", JNull)>>),
     D(<<KV("listResults", JNum(5))>>),
     D(<<KV("listResults", JList(<<JStr("z1")>>))>>)}

AlternativeValues(z) == {Absent, Marked(z), D(<<KV("other", JNum(1))>>), JList(<<JNum(1)>>)}

\* values met at an inner node of the primary path instead of a dict
Junk == {Absent, JNull, JList(<<>>)}

\* the decoded __NEXT_DATA__ with the given values at the four search result
\* paths; broken names the node of the primary path (if any) that holds
\* junk instead of a dict
Envelope(prim, a1, a2, a3, broken, junk) ==
    LET cat1 == IF broken = "cat1" THEN junk ELSE D(<<KV("searchResults", prim)>>)
        sps == IF broken = "searchPageState" THEN junk
               ELSE D(<<KV("cat1", cat1), KV("searchResults", a1)>>)
        pp == IF broken = "pageProps" THEN junk
              ELSE D(<<KV("searchPageState", sps),
                       KV("componentProps", D(<<KV("searchResults", a2)>>))>>)
        irs == D(<<KV("searchPageState", D(<<KV("cat1", D(<<KV("searchResults", a3)>>))>>))>>)
        props == IF broken = "props" THEN junk
                 ELSE D(<<KV("pageProps", pp), KV("initialReduxState", irs)>>)
    IN D(<<KV("props", props)>>)

EnvelopeJson ==
    {Envelope(prim, a1, a2, a3, "nothing", Absent) :
        prim \in PrimaryValues, a1 \in AlternativeValues("z1"),
        a2 \in AlternativeValues("z2"), a3 \in AlternativeValues("z3")}
    \cup {Envelope(Marked("z1"), a1, a2, Absent, broken, junk) :
             a1 \in AlternativeValues("z1"), a2 \in AlternativeValues("z2"),
             broken \in {"props", "pageProps", "searchPageState", "cat1"},
             junk \in Junk}

ListingJson ==
    {Envelope(D(<<KV("listResults", JList(l))>>), Absent, Absent, Absent, "nothing", Absent) :
        l \in ListingArrays}
    \cup {Envelope(D(<<KV("results", JList(l))>>), Absent, Absent, Absent, "nothing", Absent) :
             l \in {r \in ListingArrays : Len(r) <= 1}}
    \cup {Envelope(D(<<KV("mapResults", JList(l))>>), Absent, Absent, Absent, "nothing", Absent) :
             l \in {r \in ListingArrays : Len(r) <= 1}}

JsonInputs == EnvelopeJson \cup ListingJson \cup {JNull, JEmpty, JList(<<JNum(1)>>), JNum(7)}

PageInputs ==
    {Page(kind, JNull) : kind \in {"empty", "no_script", "empty_script", "invalid_json"}}
    \cup {Page("json", j) : j \in JsonInputs}

(***************************************************************************)
(* Parser runs                                                             *)
(***************************************************************************)
ParserInit ==
    /\ html_content \in PageInputs
    /\ json_arg = html_content.json
    /\ ppc = "ready"
    /\ search_out = Absent
    /\ properties = Absent
    /\ base_url = Url("none", 0, 0)
    /\ max_pages = 0
    /\ site = [p \in SitePages |-> "absent"]
    /\ pc = "off"
    /\ page_num = 0
    /\ all_pages = <<>>
    /\ result = None
    /\ returned = <<>>
    /\ attempted = <<>>
    /\ sent = <<>>

\* ZillowParser.parse_listings(html_content)
ParseListings ==
    /\ ppc = "ready"
    /\ properties = Absent
    /\ properties' = parse_all_properties(html_content)
    /\ UNCHANGED <<ppc, html_content, json_arg, search_out>>
    /\ UNCHANGED scraperVars

\* extract_search_results(json_data) on the decoded page data
ExtractSearchResults ==
    /\ ppc = "ready"
    /\ html_content.kind = "json"
    /\ search_out = Absent
    /\ search_out' = extract_search_results(json_arg)
    /\ UNCHANGED <<ppc, html_content, json_arg, properties>>
    /\ UNCHANGED scraperVars

ParserNext ==
    \/ ParseListings
    \/ ExtractSearchResults

ParserSpec == ParserInit /\ [][ParserNext]_vars

(***************************************************************************)
(* Properties of the fetch loop (checked under Spec)                       *)
(***************************************************************************)
AllFetchesGaveHtml ==
    \A i \in DOMAIN sent :
        /\ sent[i].outcome = "ok"
        /\ Truthy(sent[i].result)
        /\ ExtractHtml(sent[i].result) # NoHtml

\* the site has exactly N result pages
SiteHasPages(N) ==
    /\ \A k \in 1..(N - 1) : site[k] = "enabled"
    /\ site[N] # "enabled"

\* C1: fetch_all_pages makes at most max_pages requests, and the list it
\* builds and returns has at most max_pages entries.
C1_BoundedByMaxPages ==
    /\ Len(sent) <= max_pages
    /\ Len(attempted) <= max_pages
    /\ Len(all_pages) <= max_pages
    /\ (pc = "done" => Len(returned) <= max_pages)

C1_Witness ==
    /\ pc = "done"
    /\ max_pages >= 2
    /\ Len(sent) = max_pages
    /\ Len(returned) = max_pages

\* C2: every page number attempted causes exactly one HTTP call, and none
\* is requested twice: the calls made are exactly the iterations entered.
C2_OneCallPerAttemptedPage ==
    /\ Len(sent) = Len(attempted)
    /\ \A i \in DOMAIN sent : i \in DOMAIN attempted /\ sent[i].page = attempted[i]
    /\ \A i, j \in DOMAIN sent : sent[i].page = sent[j].page => i = j

\* C3: when the site has N <= max_pages pages and every fetch gave HTML,
\* fetch_all_pages returns the pages 1..N, each holding that page of the
\* site, and has made N requests.
C3_FetchesAllAvailablePages ==
    \A N \in 1..max_pages :
        (pc = "done" /\ SiteHasPages(N) /\ AllFetchesGaveHtml)
        => /\ Len(returned) = N
           /\ Len(sent) = N
           /\ \A i \in DOMAIN returned :
                 /\ returned[i].page_number = i
                 /\ ExtractHtml(returned[i].data).page = i

\* C4: a call that ended in a network failure gave None to the caller and
\* did not raise; a call gave a dict only when it ended in success.
C4_FetchPageNoneOnFailure ==
    \A i \in DOMAIN sent :
        /\ sent[i].outcome \in NetworkFailures => sent[i].result = None
        /\ sent[i].result.k = "dict" => sent[i].outcome = "ok"

C4_Witness ==
    /\ Len(sent) >= 2
    /\ sent[1].result.k = "dict"
    /\ sent[Len(sent)].outcome = "timeout"
    /\ sent[Len(sent)].result = None
    /\ pc = "done"

\* C5: a fetch without a result is the last call made; the failed page is
\* not recorded, and the pages collected before it are what is returned.
C5_StopsOnNoResult ==
    /\ \A i \in DOMAIN sent : i < Len(sent) => Truthy(sent[i].result)
    /\ (/\ pc \in {"exit", "done"}
        /\ sent # <<>>
        /\ ~Truthy(sent[Len(sent)].result))
       => /\ sent[Len(sent)].page = Len(sent)
          /\ Len(all_pages) = Len(sent) - 1
          /\ \A i \in DOMAIN all_pages :
                /\ all_pages[i].page_number = i
                /\ all_pages[i].data = sent[i].result
          /\ (pc = "done" => returned = all_pages)

C5_Witness ==
    /\ pc = "done"
    /\ Len(sent) = 3
    /\ sent[3].result = None
    /\ Len(returned) = 2

\* C9: every request for a page number n >= 2 sends a URL whose
\* searchQueryState has pagination.currentPage = n.
C9_UrlCarriesPageNumber ==
    \A i \in DOMAIN sent :
        sent[i].page >= 2 => CurrentPageOf(sent[i].url) = sent[i].page

(***************************************************************************)
(* Properties of the parser (checked under ParserSpec)                     *)
(***************************************************************************)
\* the value a decoded page holds at a key path, Absent when there is none
RECURSIVE ValueAt(_, _)
ValueAt(v, path) ==
    IF path = <<>> THEN v
    ELSE IF v.t # "dict" THEN Absent
    ELSE ValueAt(Lookup(v, Head(path)), Tail(path))

IsListResultsDict(v) == v.t = "dict" /\ JTruthy(v) /\ Lookup(v, "listResults") # Absent

\* the listing array of a page: the first non-empty of listResults, results
\* and mapResults of its search results
ListingArrayOf(j) ==
    LET sr == ValueAt(j, PrimaryPath)
    IN IF sr.t # "dict" THEN Absent
       ELSE IF JTruthy(Lookup(sr, "listResults")) THEN Lookup(sr, "listResults")
       ELSE IF JTruthy(Lookup(sr, "results")) THEN Lookup(sr, "results")
       ELSE Lookup(sr, "mapResults")

CarriesZpid(e) == e.t = "dict" /\ JTruthy(Lookup(e, "zpid"))

RECURSIVE ZpidsCarried(_)
ZpidsCarried(entries) ==
    IF entries = <<>> THEN <<>>
    ELSE (IF CarriesZpid(Head(entries)) THEN <<Lookup(Head(entries), "zpid")>> ELSE <<>>)
         \o ZpidsCarried(Tail(entries))

\* C6: for a listing array of JSON objects, the output of
\* parse_all_properties holds, in input order, exactly one record for each
\* entry that carries a non-empty zpid and none for the others, so it is
\* never longer than the array.
C6_ParsesEveryListing ==
    (/\ properties # Absent
     /\ html_content.kind = "json"
     /\ ListingArrayOf(html_content.json).t = "list"
     /\ \A i \in DOMAIN ListingArrayOf(html_content.json).items :
           ListingArrayOf(html_content.json).items[i].t = "dict")
    => /\ properties.t = "list"
       /\ Len(properties.items) <= Len(ListingArrayOf(html_content.json).items)
       /\ [i \in DOMAIN properties.items |-> properties.items[i].zpid]
             = ZpidsCarried(ListingArrayOf(html_content.json).items)

\* C7: extract_search_results returns the non-empty value at the primary
\* path, else the value at the first alternative path that is a non-empty
\* dict containing listResults, else None.
C7_OrderedFallbackPaths ==
    search_out # Absent
    => search_out =
         (IF JTruthy(ValueAt(json_arg, PrimaryPath))
          THEN ValueAt(json_arg, PrimaryPath)
          ELSE IF \E i \in DOMAIN alternative_paths :
                     IsListResultsDict(ValueAt(json_arg, alternative_paths[i]))
          THEN LET first == CHOOSE i \in DOMAIN alternative_paths :
                             /\ IsListResultsDict(ValueAt(json_arg, alternative_paths[i]))
                             /\ \A j \in 1..(i - 1) :
                                   ~IsListResultsDict(ValueAt(json_arg, alternative_paths[j]))
               IN ValueAt(json_arg, alternative_paths[first])
          ELSE JNull)

\* C8: when the page has no __NEXT_DATA__ tag, its content does not decode,
\* or the decoded data holds no search results dict at any of the paths,
\* parse_all_properties returns an empty list (and does not raise).
C8_EmptyListWhenNothingToExtract ==
    (/\ properties # Absent
     /\ \/ html_content.kind # "json"
        \/ /\ ValueAt(html_content.json, PrimaryPath).t # "dict"
           /\ \A i \in DOMAIN alternative_paths :
                 ValueAt(html_content.json, alternative_paths[i]).t # "dict")
    => properties = JList(<<>>)

====
